---- MODULE Spec2Model ----
(***************************************************************************)
(* A model of ssp_director, the Python client of SlideShowPro Director's   *)
(* API (src/ssp_director/__init__.py).                                     *)
(*                                                                         *)
(* A response body is a sequence of characters.  An API key and a host     *)
(* path are sequences of units: a unit is one character ('-', ' ', '/'),   *)
(* the scheme "http://", or a word ("hosted", "local", "x", ...) standing  *)
(* for a fixed non-empty run of letters and digits.  Option names and      *)
(* option values, which the code builds and never scans, are TLA+ strings. *)
(*                                                                         *)
(* The interpreter is the one the repository's tests run on (src/tests.py  *)
(* uses basestring): a str has no __iter__ attribute, and the transport's  *)
(* read() returns a str.                                                   *)
(***************************************************************************)
EXTENDS Integers, Sequences, FiniteSets, TLC

VARIABLES
    directors,      \* the Director objects constructed so far, by identity
    classFormats,   \* FormatMixin._formats, the class attribute
    instFormats,    \* each object's own _formats attribute, once assigned
    hist,           \* history: the format calls made on each object since its last clear_formats
    nops,           \* history: number of registry mutations so far
    call            \* the operation in progress or last finished, with its outcome

vars == <<directors, classFormats, instFormats, hist, nops, call>>

\* ------------------------------------------------------------------ bounds

\* Registry mutations (add_format, add_user_format, set_preview_format,
\* clear_formats) in one run.
MaxOps == 3

\* Length of the arbitrary response bodies the transport may deliver.
MaxBody == 3

\* Length, in units, of the arbitrary API keys given to the constructor.
MaxKey == 3

\* ------------------------------------------------------------------ text

BS == "\\"
QT == "\""
SP == " "

IsSpace(c) == c = SP

RECURSIVE LStrip(_)
LStrip(s) == IF s # <<>> /\ IsSpace(Head(s)) THEN LStrip(Tail(s)) ELSE s

RECURSIVE RStrip(_)
RStrip(s) ==
    IF s # <<>> /\ IsSpace(s[Len(s)]) THEN RStrip(SubSeq(s, 1, Len(s) - 1)) ELSE s

\* str.strip()
Strip(s) == RStrip(LStrip(s))

\* str.split(sep): the parts between the separators, one more than there are separators
RECURSIVE Split(_, _)
Split(s, sep) ==
    IF \A i \in 1..Len(s) : s[i] # sep
    THEN <<s>>
    ELSE LET i == CHOOSE k \in 1..Len(s) :
                      s[k] = sep /\ \A j \in 1..(k - 1) : s[j] # sep
         IN  <<SubSeq(s, 1, i - 1)>> \o Split(SubSeq(s, i + 1, Len(s)), sep)

\* sep.join(parts), on TLA+ strings
RECURSIVE Join(_, _)
Join(parts, sep) ==
    IF parts = <<>> THEN ""
    ELSE IF Len(parts) = 1 THEN parts[1]
    ELSE parts[1] \o sep \o Join(Tail(parts), sep)

\* int(bool(x))
IntBool(b) == IF b THEN 1 ELSE 0

\* dict.update: the new entries replace the old ones of the same name
Update(options, new) == new @@ options

NoOptions == <<>>

\* ------------------------------------------------------------------ Director.__init__

Insts == {"A", "B"}

Services == {<<"local">>, <<"hosted">>}

\* api_path.strip().rstrip('/').replace('http://', '')
RECURSIVE RStripSlash(_)
RStripSlash(s) ==
    IF s = <<>> THEN s
    ELSE IF s[Len(s)] = "/" THEN RStripSlash(SubSeq(s, 1, Len(s) - 1))
    ELSE IF s[Len(s)] = "http://" THEN SubSeq(s, 1, Len(s) - 1) \o <<"http:">>
    ELSE s

DropScheme(s) == SelectSeq(s, LAMBDA c : c # "http://")

NormPath(api_path) == DropScheme(RStripSlash(Strip(api_path)))

\* service, key = api_key.strip().split('-'), and the membership test on service
KeyParts(api_key) == Split(Strip(api_key), "-")

KeyAccepted(api_key) ==
    /\ Len(KeyParts(api_key)) = 2
    /\ KeyParts(api_key)[1] \in Services

ApiPath(api_key, api_path) ==
    <<"http://">> \o NormPath(api_path)
        \o (IF KeyParts(api_key)[1] = <<"local">> THEN <<"/index.php?">> ELSE <<>>)
        \o <<"/api/">>

NoDirector == [made |-> FALSE, api_path |-> <<>>]

NoFormats == [sizes |-> <<>>, user_sizes |-> <<>>, preview |-> <<>>]

NoAttr == [set |-> FALSE, d |-> NoFormats]

IdleCall ==
    [inst |-> "", accessor |-> "", args |-> <<>>, stage |-> "Idle", trace |-> <<>>,
     options |-> NoOptions, endpoint |-> <<>>, gets |-> 0, status |-> 0,
     body |-> <<>>, text |-> <<>>, subs |-> 0, loads |-> 0,
     decoded |-> [t |-> "none"], data |-> [t |-> "none"], pick |-> <<>>,
     error |-> "", message |-> [t |-> "none"], result |-> [t |-> "none"]]

\* no operation is in progress
Idle == call.stage = "Idle"

\* the stages at which an operation hands its result or its exception to the caller
Finished == {"Constructed", "Done", "ConfigError", "ConnectionFailed", "NonOkStatus",
             "ParseFailed", "ServiceError", "Success", "Uncaught"}

\* the caller has the result or the exception
Return ==
    /\ call.stage \in Finished
    /\ call' = IdleCall
    /\ UNCHANGED <<directors, classFormats, instFormats, hist, nops>>

\* Director(api_key, api_path) bound to the fresh object i
Construct(i, api_key, api_path) ==
    /\ Idle
    /\ ~directors[i].made
    /\ IF KeyAccepted(api_key)
       THEN /\ directors' = [directors EXCEPT
                                ![i] = [made |-> TRUE, api_path |-> ApiPath(api_key, api_path)]]
            /\ call' = [IdleCall EXCEPT !.inst = i, !.accessor = "__init__",
                                        !.args = [api_key |-> api_key, api_path |-> api_path],
                                        !.stage = "Constructed"]
       ELSE /\ directors' = directors
            /\ call' = [IdleCall EXCEPT !.inst = i, !.accessor = "__init__",
                                        !.args = [api_key |-> api_key, api_path |-> api_path],
                                        !.stage = "ConfigError", !.error = "ValueError"]
    /\ UNCHANGED <<classFormats, instFormats, hist, nops>>

\* ------------------------------------------------------------------ FormatMixin

\* self._formats: the object's own attribute if it has one, else the class's
Formats(i) == IF instFormats[i].set THEN instFormats[i].d ELSE classFormats

SizeTuple(a) ==
    <<a.name, a.width, a.height, IntBool(a.crop), a.quality, IntBool(a.sharpening)>>

PreviewTuple(a) ==
    <<a.width, a.height, IntBool(a.crop), a.quality, IntBool(a.sharpening)>>

\* the in-place change of the dict self._formats names
Mutate(i, d) ==
    IF instFormats[i].set
    THEN /\ instFormats' = [instFormats EXCEPT ![i].d = d]
         /\ classFormats' = classFormats
    ELSE /\ classFormats' = d
         /\ instFormats' = instFormats

FormatDone(i, name, a) ==
    [IdleCall EXCEPT !.inst = i, !.accessor = name, !.args = a, !.stage = "Done"]

add_format(i, a) ==
    /\ Idle /\ directors[i].made /\ nops < MaxOps
    /\ Mutate(i, [Formats(i) EXCEPT !.sizes = Append(@, SizeTuple(a))])
    /\ hist' = [hist EXCEPT ![i].sizes = Append(@, SizeTuple(a))]
    /\ nops' = nops + 1
    /\ call' = FormatDone(i, "add_format", a)
    /\ UNCHANGED directors

add_user_format(i, a) ==
    /\ Idle /\ directors[i].made /\ nops < MaxOps
    /\ Mutate(i, [Formats(i) EXCEPT !.user_sizes = Append(@, SizeTuple(a))])
    /\ hist' = [hist EXCEPT ![i].user_sizes = Append(@, SizeTuple(a))]
    /\ nops' = nops + 1
    /\ call' = FormatDone(i, "add_user_format", a)
    /\ UNCHANGED directors

set_preview_format(i, a) ==
    /\ Idle /\ directors[i].made /\ nops < MaxOps
    /\ Mutate(i, [Formats(i) EXCEPT !.preview = <<PreviewTuple(a)>>])
    /\ hist' = [hist EXCEPT ![i].preview = <<PreviewTuple(a)>>]
    /\ nops' = nops + 1
    /\ call' = FormatDone(i, "set_preview_format", a)
    /\ UNCHANGED directors

clear_formats(i) ==
    /\ Idle /\ directors[i].made /\ nops < MaxOps
    /\ instFormats' = [instFormats EXCEPT ![i] = [set |-> TRUE, d |-> NoFormats]]
    /\ classFormats' = classFormats
    /\ hist' = [hist EXCEPT ![i] = NoFormats]
    /\ nops' = nops + 1
    /\ call' = FormatDone(i, "clear_formats", <<>>)
    /\ UNCHANGED directors

\* ------------------------------------------------------------------ the response body

\* 'u' left out of the lookahead
FollowedBySlashOrQuote(s, i) == i < Len(s) /\ s[i + 1] \in {"/", QT}

\* re.compile(r'\\(?![/u"])').sub('', response): a backslash goes unless the
\* character right after it is '/', 'u' or '"'
FollowedByKept(s, i) == i < Len(s) /\ s[i + 1] \in {"/", "u", QT}

RECURSIVE SanitizeFrom(_, _)
SanitizeFrom(s, i) ==
    IF i > Len(s) THEN <<>>
    ELSE IF s[i] = BS /\ ~FollowedByKept(s, i) THEN SanitizeFrom(s, i + 1)
    ELSE <<s[i]>> \o SanitizeFrom(s, i + 1)

Sanitize(s) == SanitizeFrom(s, 1)

\* JSON values, as json.loads builds them
JNone == [t |-> "none"]
JNull == [t |-> "null"]
JBool(b) == [t |-> "bool", v |-> b]
JStr(chars) == [t |-> "str", v |-> chars]
JNum(digits) == [t |-> "num", v |-> digits]
JArr(items) == [t |-> "arr", v |-> items]
JObj(pairs) == [t |-> "obj", v |-> pairs]

Digits == {"0", "1", "2", "3", "4", "5", "6", "7", "8", "9"}
HexDigits == Digits \cup {"a", "b", "c", "d", "e", "f", "A", "B", "C", "D", "E", "F"}
SimpleEscapes == {QT, BS, "/", "b", "f", "n", "r", "t"}

\* the character an escape sequence stands for
Unescape(e) ==
    CASE e = "b" -> "<BS>" [] e = "f" -> "<FF>" [] e = "n" -> "<LF>"
      [] e = "r" -> "<CR>" [] e = "t" -> "<TAB>" [] OTHER -> e

ParseFail == [ok |-> FALSE, val |-> JNone, rest |-> <<>>]
Parsed(v, rest) == [ok |-> TRUE, val |-> v, rest |-> rest]

RECURSIVE SkipWs(_)
SkipWs(s) == IF s # <<>> /\ IsSpace(Head(s)) THEN SkipWs(Tail(s)) ELSE s

StartsWith(s, p) == Len(s) >= Len(p) /\ SubSeq(s, 1, Len(p)) = p

\* the characters of a string literal, after its opening quote
RECURSIVE ParseChars(_, _)
ParseChars(s, acc) ==
    IF s = <<>> THEN ParseFail
    ELSE IF Head(s) = QT THEN Parsed(JStr(acc), Tail(s))
    ELSE IF Head(s) # BS THEN ParseChars(Tail(s), Append(acc, Head(s)))
    ELSE IF Len(s) < 2 THEN ParseFail
    ELSE IF s[2] \in SimpleEscapes
         THEN ParseChars(SubSeq(s, 3, Len(s)), Append(acc, Unescape(s[2])))
    ELSE IF s[2] = "u" /\ Len(s) >= 6 /\ \A k \in 3..6 : s[k] \in HexDigits
         THEN ParseChars(SubSeq(s, 7, Len(s)),
                         Append(acc, "U+" \o s[3] \o s[4] \o s[5] \o s[6]))
    ELSE ParseFail

RECURSIVE ParseDigits(_, _)
ParseDigits(s, acc) ==
    IF s # <<>> /\ Head(s) \in Digits
    THEN ParseDigits(Tail(s), Append(acc, Head(s)))
    ELSE Parsed(JNum(acc), s)

\* the element of a one-element set
Only(S) == CHOOSE r \in S : TRUE

RECURSIVE ParseValue(_)
RECURSIVE ParseMembers(_, _)
RECURSIVE ParseItems(_, _)

\* after a member: the closing brace ends the object, a comma goes on
MembersAfter(s, got) ==
    IF s = <<>> THEN ParseFail
    ELSE IF Head(s) = "}" THEN Parsed(JObj(got), Tail(s))
    ELSE IF Head(s) = "," THEN ParseMembers(SkipWs(Tail(s)), got)
    ELSE ParseFail

\* a member's value, from the colon on
MemberValue(key, s, acc) ==
    IF s = <<>> \/ Head(s) # ":" THEN ParseFail
    ELSE Only({ IF ~v.ok THEN ParseFail
                ELSE MembersAfter(SkipWs(v.rest), Append(acc, <<key, v.val>>)) :
                v \in {ParseValue(SkipWs(Tail(s)))} })

\* the members of an object, from a member's opening quote on
ParseMembers(s, acc) ==
    IF s = <<>> \/ Head(s) # QT THEN ParseFail
    ELSE Only({ IF ~k.ok THEN ParseFail ELSE MemberValue(k.val.v, SkipWs(k.rest), acc) :
                k \in {ParseChars(Tail(s), <<>>)} })

\* after an item: the closing bracket ends the array, a comma goes on
ItemsAfter(s, got) ==
    IF s = <<>> THEN ParseFail
    ELSE IF Head(s) = "]" THEN Parsed(JArr(got), Tail(s))
    ELSE IF Head(s) = "," THEN ParseItems(SkipWs(Tail(s)), got)
    ELSE ParseFail

\* the items of an array, from an item's first character on
ParseItems(s, acc) ==
    Only({ IF ~v.ok THEN ParseFail ELSE ItemsAfter(SkipWs(v.rest), Append(acc, v.val)) :
           v \in {ParseValue(s)} })

\* after the opening brace: the closing one, or the first member
ObjectOpened(s) ==
    IF s # <<>> /\ Head(s) = "}" THEN Parsed(JObj(<<>>), Tail(s)) ELSE ParseMembers(s, <<>>)

\* after the opening bracket: the closing one, or the first item
ArrayOpened(s) ==
    IF s # <<>> /\ Head(s) = "]" THEN Parsed(JArr(<<>>), Tail(s)) ELSE ParseItems(s, <<>>)

ParseValue(s) ==
    IF s = <<>> THEN ParseFail
    ELSE IF Head(s) = QT THEN ParseChars(Tail(s), <<>>)
    ELSE IF Head(s) = "{" THEN Only({ ObjectOpened(s1) : s1 \in {SkipWs(Tail(s))} })
    ELSE IF Head(s) = "[" THEN Only({ ArrayOpened(s1) : s1 \in {SkipWs(Tail(s))} })
    ELSE IF Head(s) = "0" THEN Parsed(JNum(<<"0">>), Tail(s))
    ELSE IF Head(s) \in Digits THEN ParseDigits(s, <<>>)
    ELSE IF StartsWith(s, <<"n", "u", "l", "l">>) THEN Parsed(JNull, SubSeq(s, 5, Len(s)))
    ELSE IF StartsWith(s, <<"t", "r", "u", "e">>) THEN Parsed(JBool(TRUE), SubSeq(s, 5, Len(s)))
    ELSE IF StartsWith(s, <<"f", "a", "l", "s", "e">>)
         THEN Parsed(JBool(FALSE), SubSeq(s, 6, Len(s)))
    ELSE ParseFail

\* json.loads(text): one value, and nothing but blanks around it
Loads(text) ==
    Only({ IF v.ok /\ SkipWs(v.rest) = <<>> THEN v ELSE ParseFail :
           v \in {ParseValue(SkipWs(text))} })

\* obj[key] for a string key: the last member of that name, else KeyError;
\* TypeError on anything that is not a dict
HasKey(v, key) == v.t = "obj" /\ \E k \in 1..Len(v.v) : v.v[k][1] = key

GetItem(v, key) ==
    LET k == CHOOSE n \in 1..Len(v.v) :
                 v.v[n][1] = key /\ \A m \in (n + 1)..Len(v.v) : v.v[m][1] # key
    IN  v.v[k][2]

SubscriptError(v, key) ==
    IF v.t # "obj" THEN "TypeError" ELSE IF ~HasKey(v, key) THEN "KeyError" ELSE ""

\* ------------------------------------------------------------------ Director._get

\* the option name 'size[%s]' % n is the pair <<"size", n>>; any other name is <<name>>
Opt(name, v) == <<name>> :> v

\* ','.join(map(str, format))
SizeValue(t) ==
    Join(<<t[1], ToString(t[2]), ToString(t[3]), ToString(t[4]), ToString(t[5]),
           ToString(t[6])>>, ",")

PreviewValue(t) ==
    Join(<<ToString(t[1]), ToString(t[2]), ToString(t[3]), ToString(t[4]),
           ToString(t[5])>>, ",")

\* the formats numbered from 0
RECURSIVE EnumeratedFromZero(_, _, _, _)
EnumeratedFromZero(options, name, formats, n) ==
    IF n > Len(formats) THEN options
    ELSE EnumeratedFromZero(Update(options, <<name, n - 1>> :> SizeValue(formats[n])),
                            name, formats, n + 1)

\* for i, format in enumerate(formats, start=1): options.update({'name[i]': ...})
RECURSIVE Enumerated(_, _, _, _)
Enumerated(options, name, formats, n) ==
    IF n > Len(formats) THEN options
    ELSE Enumerated(Update(options, <<name, n>> :> SizeValue(formats[n])),
                    name, formats, n + 1)

WithPreview(options, preview) ==
    IF preview # <<>> THEN Update(options, Opt("preview", PreviewValue(preview[1])))
    ELSE options

WithFormats(options, f) ==
    WithPreview(Enumerated(Enumerated(options, "size", f.sizes, 1),
                           "user_size", f.user_sizes, 1),
                f.preview)

\* _get up to the built url: the accessor's options, the formats and the endpoint
Built(i, name, a, scope, options, pick) ==
    [IdleCall EXCEPT !.inst = i, !.accessor = name, !.args = a,
                     !.stage = "Built", !.trace = <<"Built">>,
                     !.options = WithFormats(options, Formats(i)),
                     !.endpoint = directors[i].api_path \o <<scope>>,
                     !.pick = pick]

\* an accessor's raise ValueError(...)
Raised(i, name, a) ==
    [IdleCall EXCEPT !.inst = i, !.accessor = name, !.args = a,
                     !.stage = "ConfigError", !.error = "ValueError"]

Stage(c, st) == [c EXCEPT !.stage = st, !.trace = Append(@, st)]

HttpOk == 200

\* urlopen(url) is called
Send ==
    /\ call.stage = "Built"
    /\ call' = [Stage(call, "Sent") EXCEPT !.gets = @ + 1]
    /\ UNCHANGED <<directors, classFormats, instFormats, hist, nops>>

\* urlopen raises IOError
ConnectFail ==
    /\ call.stage = "Sent"
    /\ call' = [Stage(call, "ConnectionFailed") EXCEPT !.error = "DirectorConnectionError"]
    /\ UNCHANGED <<directors, classFormats, instFormats, hist, nops>>

\* the test on getcode() left out
RespondAnyStatus(code, body) ==
    /\ call.stage = "Sent"
    /\ call' = [Stage(call, "BodyReceived") EXCEPT !.status = code, !.body = body]
    /\ UNCHANGED <<directors, classFormats, instFormats, hist, nops>>

\* urlopen returns a response whose getcode() is code; read() gives body
Respond(code, body) ==
    /\ call.stage = "Sent"
    /\ call' = IF code # HttpOk
               THEN [Stage(call, "NonOkStatus") EXCEPT
                        !.status = code, !.error = "DirectorConnectionError"]
               ELSE [Stage(call, "BodyReceived") EXCEPT !.status = code, !.body = body]
    /\ UNCHANGED <<directors, classFormats, instFormats, hist, nops>>

\* response = regex.sub(r'', response); response = json.loads(response)
Loaded(c, text, r) ==
    IF r.ok
    THEN [Stage(c, "Decoded") EXCEPT
             !.text = text, !.subs = @ + 1, !.loads = @ + 1, !.decoded = r.val]
    ELSE [Stage(c, "ParseFailed") EXCEPT
             !.text = text, !.subs = @ + 1, !.loads = @ + 1, !.error = "DirectorApiError"]

Decoded(c) ==
    Only({ Loaded(c, text, Loads(text)) : text \in {Sanitize(c.body)} })

\* regex.sub, then json.loads
Decode ==
    /\ call.stage = "BodyReceived"
    /\ call' = Decoded(call)
    /\ UNCHANGED <<directors, classFormats, instFormats, hist, nops>>

W_stat == <<"s", "t", "a", "t">>
W_ok == <<"o", "k">>
W_data == <<"d", "a", "t", "a">>
W_error == <<"e", "r", "r", "o", "r">>

\* value == 'chars'
IsStr(v, chars) == v.t = "str" /\ v.v = chars

\* data[key] in the accessor, after _get has returned data
Picked(c) ==
    IF c.pick = <<>> THEN [c EXCEPT !.result = c.data]
    ELSE IF SubscriptError(c.data, c.pick) # ""
         THEN [c EXCEPT !.error = SubscriptError(c.data, c.pick)]
    ELSE [c EXCEPT !.result = GetItem(c.data, c.pick)]

\* response['stat'] != 'ok', raise DirectorError(response['error']),
\* return response['data']
Inspected(c) ==
    LET v == c.decoded IN
    IF SubscriptError(v, W_stat) # ""
    THEN [Stage(c, "Uncaught") EXCEPT !.error = SubscriptError(v, W_stat)]
    ELSE IF ~IsStr(GetItem(v, W_stat), W_ok)
    THEN IF SubscriptError(v, W_error) # ""
         THEN [Stage(c, "Uncaught") EXCEPT !.error = SubscriptError(v, W_error)]
         ELSE [Stage(c, "ServiceError") EXCEPT
                  !.error = "DirectorError", !.message = GetItem(v, W_error)]
    ELSE IF SubscriptError(v, W_data) # ""
         THEN [Stage(c, "Uncaught") EXCEPT !.error = SubscriptError(v, W_data)]
         ELSE Picked([Stage(c, "Success") EXCEPT !.data = GetItem(v, W_data)])

Inspect ==
    /\ call.stage = "Decoded"
    /\ call' = Inspected(call)
    /\ UNCHANGED <<directors, classFormats, instFormats, hist, nops>>

\* ------------------------------------------------------------------ the accessors

W_version == <<"v", "e", "r", "s", "i", "o", "n">>
W_galleries == <<"g", "a", "l", "l", "e", "r", "i", "e", "s">>
W_albums == <<"a", "l", "b", "u", "m", "s">>
W_contents == <<"c", "o", "n", "t", "e", "n", "t", "s">>
W_users == <<"u", "s", "e", "r", "s">>

\* an optional argument: <<>> is None, <<v>> is the value v
None == <<>>
Some(v) == <<v>>
TruthyStr(o) == o # None /\ o[1] # ""
TruthyInt(o) == o # None /\ o[1] # 0

\* a tags argument: None, a list of tags, or one bare tag
NoTags == [kind |-> "none", items |-> <<>>, text |-> ""]
TagList(items) == [kind |-> "list", items |-> items, text |-> ""]
TagScalar(text) == [kind |-> "str", items |-> <<>>, text |-> text]

\* a bare tag is not wrapped into a list
NormTagsListOnly(t) == IF t.kind = "list" THEN t.items ELSE <<>>

\* if not tags: tags = []; if not hasattr(tags, '__iter__'): tags = [tags]
NormTags(t) ==
    IF t.kind = "none" \/ (t.kind = "list" /\ t.items = <<>>) \/ (t.kind = "str" /\ t.text = "")
    THEN <<>>
    ELSE IF t.kind = "str" THEN <<t.text>>
    ELSE t.items

\* if tags: options.update({'tags': ..., 'tags_exclusive': ...})
WithTags(options, t, tags_exclusive) ==
    IF NormTags(t) # <<>>
    THEN Update(options, Opt("tags", Join(NormTags(t), ","))
                         @@ Opt("tags_exclusive", IntBool(tags_exclusive)))
    ELSE options

\* one value too many
OrdersAndMore == {"display", "created_on", "modified_on", "bogus"}

Orders == {"display", "created_on", "modified_on"}
SortOns == {"created_on", "captured_on", "modified_on", "filename", "random"}
SortDirections == {"desc", "asc"}
Scopes == {"gallery", "album"}
Sorts == {"name", "activity"}

\* scope and scope not in ['gallery', 'album']
BadScope(scope) == TruthyStr(scope) /\ scope[1] \notin Scopes

\* str.upper()
Upper(x) == CASE x = "desc" -> "DESC" [] x = "asc" -> "ASC" [] OTHER -> x

BusterLow == 1
BusterHigh == 1000000

Request(i, name, a, scope, options, pick) ==
    /\ Idle /\ directors[i].made
    /\ call' = Built(i, name, a, scope, options, pick)
    /\ UNCHANGED <<directors, classFormats, instFormats, hist, nops>>

Refuse(i, name, a) ==
    /\ Idle /\ directors[i].made
    /\ call' = Raised(i, name, a)
    /\ UNCHANGED <<directors, classFormats, instFormats, hist, nops>>

get_version(i) == Request(i, "get_version", <<>>, "app_version", NoOptions, W_version)

get_limits(i) == Request(i, "get_limits", <<>>, "app_limits", NoOptions, <<>>)

get_totals(i) == Request(i, "get_totals", <<>>, "app_totals", NoOptions, <<>>)

get_galleries(i) == Request(i, "get_galleries", <<>>, "get_gallery_list", NoOptions, W_galleries)

get_gallery(i, a) ==
    IF a.order \notin Orders
    THEN Refuse(i, "get_gallery", a)
    ELSE Request(i, "get_gallery", a, "get_gallery",
                 Opt("gallery_id", a.gallery_id) @@ Opt("limit", a.limit)
                    @@ Opt("order", a.order)
                    @@ Opt("with_content", IntBool(a.with_content)),
                 <<>>)

get_albums(i, a) ==
    Request(i, "get_albums", a, "get_album_list",
            WithTags(Opt("only_published", IntBool(a.only_published))
                        @@ Opt("only_active", IntBool(a.only_active))
                        @@ Opt("list_only", IntBool(a.list_only))
                        @@ Opt("only_smart", IntBool(a.only_smart))
                        @@ Opt("exclude_smart", IntBool(a.exclude_smart)),
                     a.tags, a.tags_exclusive),
            W_albums)

get_album(i, a) ==
    Request(i, "get_album", a, "get_album",
            Opt("album_id", a.album_id) @@ Opt("only_active", IntBool(a.only_active)),
            <<>>)

\* if exclude: options.update({'exclude': ','.join(str(int(id)) for id in exclude)})
WithExclude(options, exclude) ==
    IF exclude # <<>>
    THEN Update(options,
                Opt("exclude", Join([k \in 1..Len(exclude) |-> ToString(exclude[k])], ",")))
    ELSE options

get_galleries_by_album(i, a) ==
    Request(i, "get_galleries_by_album", a, "get_associated_galleries",
            WithExclude(Opt("album_id", a.album_id), a.exclude),
            W_galleries)

\* if sort_on == 'random': options.update({'buster': random.randint(1, 1000000)})
WithBuster(options, sort_on, buster) ==
    IF sort_on = "random" THEN Update(options, Opt("buster", buster)) ELSE options

\* the test on scope_id left out
WithScopeAlone(options, scope, scope_id) ==
    IF TruthyStr(scope)
    THEN Update(options, Opt("scope", scope[1])
                         @@ Opt("scope_id", IF scope_id = None THEN 0 ELSE scope_id[1]))
    ELSE options

\* if scope and scope_id: options.update({'scope': ..., 'scope_id': ...})
WithScope(options, scope, scope_id) ==
    IF TruthyStr(scope) /\ TruthyInt(scope_id)
    THEN Update(options, Opt("scope", scope[1]) @@ Opt("scope_id", scope_id[1]))
    ELSE options

get_contents(i, a, buster) ==
    IF a.sort_on \notin SortOns \/ a.sort_direction \notin SortDirections \/ BadScope(a.scope)
    THEN Refuse(i, "get_contents", a)
    ELSE Request(i, "get_contents", a, "get_content_list",
                 WithTags(
                    WithScope(
                       WithBuster(Opt("limit", a.limit)
                                     @@ Opt("only_images", IntBool(a.only_images))
                                     @@ Opt("only_active", IntBool(a.only_active))
                                     @@ Opt("sort_on", a.sort_on)
                                     @@ Opt("sort_direction", Upper(a.sort_direction)),
                                  a.sort_on, buster),
                       a.scope, a.scope_id),
                    a.tags, a.tags_exclusive),
                 W_contents)

get_content(i, a) ==
    Request(i, "get_content", a, "get_content", Opt("content_id", a.content_id), <<>>)

\* if scope and scope_id: options.update({'user_scope_model': ..., ...})
WithUserScope(options, scope, scope_id, scope_all) ==
    IF TruthyStr(scope) /\ TruthyInt(scope_id)
    THEN Update(options, Opt("user_scope_model", scope[1])
                         @@ Opt("user_scope_id", scope_id[1])
                         @@ Opt("user_scope_all", IntBool(scope_all)))
    ELSE options

get_users(i, a) ==
    IF a.sort \notin Sorts \/ BadScope(a.scope)
    THEN Refuse(i, "get_users", a)
    ELSE Request(i, "get_users", a, "get_users",
                 WithUserScope(Opt("sort", a.sort), a.scope, a.scope_id, a.scope_all),
                 W_users)

\* ------------------------------------------------------------------ inputs

SeqsUpTo(S, n) == UNION {[1..k -> S] : k \in 0..n}

Lit(w) == <<QT>> \o w \o <<QT>>
Member(k, v) == Lit(k) \o <<":">> \o v
Obj1(m) == <<"{">> \o m \o <<"}">>
Obj2(m, n) == <<"{">> \o m \o <<",">> \o n \o <<"}">>
Obj3(m, n, o) == <<"{">> \o m \o <<",">> \o n \o <<",">> \o o \o <<"}">>

W_fail == <<"f", "a", "i", "l">>
W_notfound == <<"n", "o", "t", " ", "f", "o", "u", "n", "d">>

\* {"stat":"ok","data":{"version":"4.2"}}
BodyVersion ==
    Obj2(Member(W_stat, Lit(W_ok)),
         Member(W_data, Obj1(Member(W_version, Lit(<<"4", ".", "2">>)))))

\* {"stat":"fail","error":"not found"}
BodyFail == Obj2(Member(W_stat, Lit(W_fail)), Member(W_error, Lit(W_notfound)))

\* the bodies of a service that keeps to its envelope, and of one that does not
Envelopes ==
    { BodyVersion,
      BodyFail,
      \* {"stat":"ok","data":[]}
      Obj2(Member(W_stat, Lit(W_ok)), Member(W_data, <<"[", "]">>)),
      \* {"stat":"OK","data":1,"error":"not found"}
      Obj3(Member(W_stat, Lit(<<"O", "K">>)), Member(W_data, <<"1">>),
           Member(W_error, Lit(W_notfound))),
      \* {"stat":1,"error":"not found"}
      Obj2(Member(W_stat, <<"1">>), Member(W_error, Lit(W_notfound))),
      \* {"stat":"ok","data":{"version":"4\.2\/"}}
      Obj2(Member(W_stat, Lit(W_ok)),
           Member(W_data, Obj1(Member(W_version, Lit(<<"4", BS, ".", "2", BS, "/">>))))),
      \* {"stat":"ok","data":"\"\/A"}
      Obj2(Member(W_stat, Lit(W_ok)),
           Member(W_data, Lit(<<BS, QT, BS, "/", BS, "u", "0", "0", "4", "1">>))),
      \* {"stat":"fail"}
      Obj1(Member(W_stat, Lit(W_fail))),
      \* {"stat":"ok"}
      Obj1(Member(W_stat, Lit(W_ok))),
      \* {"data":1}
      Obj1(Member(W_data, <<"1">>)),
      \* [1]
      <<"[", "1", "]">>,
      \* {"stat":"ok"
      <<"{">> \o Member(W_stat, Lit(W_ok)) }

BodyChars == {BS, "/", "u", QT, "n"}

ShortBodies == SeqsUpTo(BodyChars, MaxBody)

StatusCodes == {HttpOk, 404, 500}

KeyUnits == {"local", "hosted", "x", "-", SP}

AllKeys == SeqsUpTo(KeyUnits, MaxKey)

Hosts == {<<"h">>, <<"http://", "h", "/">>, <<SP, "h", "/", "p", "/", "/">>}

FormatArgs ==
    { [name |-> "thumb", width |-> 150, height |-> 120, crop |-> TRUE,
       quality |-> 75, sharpening |-> TRUE],
      [name |-> "medium", width |-> 640, height |-> 480, crop |-> FALSE,
       quality |-> 90, sharpening |-> FALSE] }

Ids == {7}
Limits == {0, 10}
OptScopes == {None, Some(""), Some("gallery"), Some("album"), Some("bogus")}
OptIds == {None, Some(0), Some(7)}
TagArgs == { NoTags, TagList(<<>>), TagList(<<"vacation">>),
             TagList(<<"vacation", "summer">>), TagScalar("summer"), TagScalar("") }

GalleryArgs ==
    [gallery_id : Ids, limit : Limits, order : Orders \cup {"bogus"},
     with_content : BOOLEAN]

AlbumsArgs ==
    [only_published : BOOLEAN, only_active : BOOLEAN, list_only : BOOLEAN,
     only_smart : {FALSE}, exclude_smart : {FALSE}, tags : TagArgs,
     tags_exclusive : BOOLEAN]

AlbumArgs == [album_id : Ids, only_active : BOOLEAN]

ByAlbumArgs == [album_id : Ids, exclude : {<<>>, <<7>>, <<7, 8>>}]

ContentsArgs ==
    [limit : Limits, only_images : {FALSE}, only_active : {TRUE},
     sort_on : {"created_on", "filename", "random", "bogus"},
     sort_direction : SortDirections \cup {"bogus"},
     scope : OptScopes, scope_id : OptIds, tags : TagArgs, tags_exclusive : BOOLEAN]

ContentArgs == [content_id : Ids]

UsersArgs ==
    [sort : Sorts \cup {"bogus"}, scope : OptScopes, scope_id : OptIds,
     scope_all : BOOLEAN]

\* ------------------------------------------------------------------ specifications

\* the module is imported: no Director yet, the class's registry empty
InitModule ==
    /\ directors = [i \in Insts |-> NoDirector]
    /\ classFormats = NoFormats
    /\ instFormats = [i \in Insts |-> NoAttr]
    /\ hist = [i \in Insts |-> NoFormats]
    /\ nops = 0
    /\ call = IdleCall

\* two clients made, A = Director('hosted-x', 'h') and B = Director('local-x', 'h'),
\* and no format call yet
Init ==
    /\ directors = [i \in Insts |->
                       [made |-> TRUE,
                        api_path |-> ApiPath(IF i = "A" THEN <<"hosted", "-", "x">>
                                             ELSE <<"local", "-", "x">>, <<"h">>)]]
    /\ classFormats = NoFormats
    /\ instFormats = [i \in Insts |-> NoAttr]
    /\ hist = [i \in Insts |-> NoFormats]
    /\ nops = 0
    /\ call = IdleCall

\* The registry and the requests that carry it.
Next ==
    \/ Idle /\ \E i \in Insts, a \in FormatArgs : add_format(i, a)
    \/ Idle /\ \E i \in Insts, a \in FormatArgs : add_user_format(i, a)
    \/ Idle /\ \E i \in Insts, a \in FormatArgs : set_preview_format(i, a)
    \/ Idle /\ \E i \in Insts : clear_formats(i)
    \/ Idle /\ \E i \in Insts : get_version(i)
    \/ Send
    \/ ConnectFail
    \/ \E b \in {BodyVersion, BodyFail} : Respond(HttpOk, b)
    \/ Decode
    \/ Inspect
    \/ Return

Spec == Init /\ [][Next]_vars

\* The constructor, on every short key.
NextKeys ==
    \/ Idle /\ \E i \in Insts, k \in AllKeys : Construct(i, k, <<"h">>)
    \/ Idle /\ \E i \in Insts : get_version(i)
    \/ Send
    \/ ConnectFail
    \/ Return

SpecKeys == InitModule /\ [][NextKeys]_vars

\* One client, made with Director('hosted-x', 'h'), which has or has not yet
\* called add_format and set_preview_format.
ThumbArgs ==
    [name |-> "thumb", width |-> 150, height |-> 120, crop |-> TRUE,
     quality |-> 75, sharpening |-> TRUE]

InitOne ==
    /\ directors = [i \in Insts |->
                       IF i = "A"
                       THEN [made |-> TRUE,
                             api_path |-> ApiPath(<<"hosted", "-", "x">>, <<"h">>)]
                       ELSE NoDirector]
    /\ \E n \in {0, 2} :
          /\ nops = n
          /\ classFormats = IF n = 0 THEN NoFormats
                            ELSE [sizes |-> <<SizeTuple(ThumbArgs)>>, user_sizes |-> <<>>,
                                  preview |-> <<PreviewTuple(ThumbArgs)>>]
          /\ hist = [i \in Insts |-> IF i = "A" THEN classFormats ELSE NoFormats]
    /\ instFormats = [i \in Insts |-> NoAttr]
    /\ call = IdleCall

\* The accessors, on every combination of their arguments.
NextOptions ==
    \/ Idle /\ \E i \in Insts : get_version(i)
    \/ Idle /\ \E i \in Insts : get_limits(i)
    \/ Idle /\ \E i \in Insts : get_totals(i)
    \/ Idle /\ \E i \in Insts : get_galleries(i)
    \/ Idle /\ \E i \in Insts, a \in GalleryArgs : get_gallery(i, a)
    \/ Idle /\ \E i \in Insts, a \in AlbumsArgs : get_albums(i, a)
    \/ Idle /\ \E i \in Insts, a \in AlbumArgs : get_album(i, a)
    \/ Idle /\ \E i \in Insts, a \in ByAlbumArgs : get_galleries_by_album(i, a)
    \/ Idle /\ \E i \in Insts, a \in ContentsArgs, b \in {BusterLow, BusterHigh} :
          get_contents(i, a, b)
    \/ Idle /\ \E i \in Insts, a \in ContentArgs : get_content(i, a)
    \/ Idle /\ \E i \in Insts, a \in UsersArgs : get_users(i, a)
    \/ Send
    \/ ConnectFail
    \/ Respond(HttpOk, BodyVersion)
    \/ Decode
    \/ Inspect
    \/ Return

SpecOptions == InitOne /\ [][NextOptions]_vars

\* The transport and the decoder, on every short body.
NextDecode ==
    \/ Idle /\ \E i \in Insts : get_version(i)
    \/ Idle /\ \E i \in Insts : get_limits(i)
    \/ Send
    \/ ConnectFail
    \/ \E c \in StatusCodes, b \in Envelopes \cup ShortBodies : Respond(c, b)
    \/ Decode
    \/ Inspect
    \/ Return

SpecDecode == InitOne /\ [][NextDecode]_vars

\* _get runs from one statement to the next without waiting, except in urlopen,
\* which is taken to answer: it raises or it returns a response.
Answer == ConnectFail \/ \E c \in StatusCodes, b \in Envelopes \cup ShortBodies : Respond(c, b)

SpecDecodeFair ==
    SpecDecode /\ WF_vars(Send) /\ WF_vars(Answer) /\ WF_vars(Decode) /\ WF_vars(Inspect)

\* url = '%s%s' % (endpoint, queryparams): the address as text, and the options
\* that urlencode puts after the '?'
Url(c) == [address |-> Join(c.endpoint, ""), query |-> c.options]

GoodKeys == {<<"hosted", "-", "x">>, <<"local", "-", "x">>}

\* Clients made on every host with a key of either service, their format
\* operations and their requests.
NextPaths ==
    \/ Idle /\ \E i \in Insts, k \in GoodKeys, h \in Hosts : Construct(i, k, h)
    \/ Idle /\ \E i \in Insts : add_format(i, ThumbArgs)
    \/ Idle /\ \E i \in Insts : clear_formats(i)
    \/ Idle /\ \E i \in Insts : get_version(i)
    \/ Idle /\ \E i \in Insts : get_limits(i)
    \/ Send
    \/ ConnectFail
    \/ Respond(HttpOk, BodyVersion)
    \/ Decode
    \/ Inspect
    \/ Return

SpecPaths == InitModule /\ [][NextPaths]_vars

\* ------------------------------------------------------------------ the format registry

\* the registry of client i, given the class's dict and the clients' own dicts
RegistryOf(i, cls, own) == IF own[i].set THEN own[i].d ELSE cls

FormatCalls == {"add_format", "add_user_format", "set_preview_format", "clear_formats"}

\* C1: a format call made on one client leaves the sizes, the user sizes and the
\* preview that every other client sees as they were, also when neither client
\* has called clear_formats yet.
C1_InstanceScoped ==
    [][\A i \in Insts, j \in Insts :
          (i # j /\ call'.stage = "Done" /\ call'.accessor \in FormatCalls /\ call'.inst = i)
             => RegistryOf(j, classFormats', instFormats') = RegistryOf(j, classFormats, instFormats)
      ]_vars

\* C2: the sizes of a client are the add_format calls made on it since its last
\* clear_formats, in call order, its user sizes the add_user_format calls, and its
\* preview the argument of its last set_preview_format, or absent; so one call of
\* each gives one size, one user size and a preview, and clear_formats leaves
\* all three empty.
C2_RegistryIsHistory ==
    \A i \in Insts : directors[i].made => Formats(i) = hist[i]

\* the text of a size spec and of a preview spec: its fields, comma-separated
SizeText(t) ==
    t[1] \o "," \o ToString(t[2]) \o "," \o ToString(t[3]) \o "," \o ToString(t[4])
         \o "," \o ToString(t[5]) \o "," \o ToString(t[6])

PreviewText(t) ==
    ToString(t[1]) \o "," \o ToString(t[2]) \o "," \o ToString(t[3]) \o ","
        \o ToString(t[4]) \o "," \o ToString(t[5])

Numbered(options, name, formats) ==
    /\ {k \in DOMAIN options : k[1] = name} = {<<name, n>> : n \in 1..Len(formats)}
    /\ \A n \in 1..Len(formats) : options[<<name, n>>] = SizeText(formats[n])

Carries(options, f) ==
    /\ Numbered(options, "size", f.sizes)
    /\ Numbered(options, "user_size", f.user_sizes)
    /\ (<<"preview">> \in DOMAIN options) <=> (f.preview # <<>>)
    /\ f.preview # <<>> => options[<<"preview">>] = PreviewText(f.preview[1])

\* C6: the options of every request hold the i-th size of the client's registry
\* under size[i] and the i-th user size under user_size[i], numbered from 1 without
\* gaps, and the preview under preview exactly when one is set; and no step of a
\* request changes the registry.
C6_FormatsCarried ==
    [][call'.trace # <<>>
          => /\ Carries(call'.options, RegistryOf(call'.inst, classFormats', instFormats'))
             /\ classFormats' = classFormats
             /\ instFormats' = instFormats
      ]_vars

\* a request on its way that carries two different sizes, in order, and a preview
C6_Witness ==
    /\ call.stage = "Sent"
    /\ Len(Formats(call.inst).sizes) = 2
    /\ Formats(call.inst).sizes[1] # Formats(call.inst).sizes[2]
    /\ Formats(call.inst).preview # <<>>
    /\ call.options[<<"size", 2>>] = SizeText(Formats(call.inst).sizes[2])

\* ------------------------------------------------------------------ the API key

\* service-token, blanks around it apart: a service, one dash, a token that is
\* not empty and holds no dash
WellFormedKey(api_key) ==
    LET k == Strip(api_key) IN
    /\ Len(k) >= 3
    /\ k[1] \in {"local", "hosted"}
    /\ k[2] = "-"
    /\ \A n \in 3..Len(k) : k[n] # "-"

\* C3: Director(api_key, ...) succeeds for every key service-token with service
\* local or hosted and a non-empty token, and raises ValueError for every other
\* key: no dash, more than one dash, another service, an empty token.
C3_KeyValidation ==
    (call.accessor = "__init__" /\ call.stage \in Finished)
       => /\ (call.stage = "Constructed") <=> WellFormedKey(call.args.api_key)
          /\ (call.stage # "Constructed") => call.error = "ValueError"

\* ------------------------------------------------------------------ the accessors' options

\* an enum-constrained argument of the call c is outside its documented set
OutOfSet(c) ==
    \/ /\ c.accessor = "get_gallery"
       /\ c.args.order \notin {"display", "created_on", "modified_on"}
    \/ /\ c.accessor = "get_contents"
       /\ \/ c.args.sort_on \notin {"created_on", "captured_on", "modified_on",
                                    "filename", "random"}
          \/ c.args.sort_direction \notin {"desc", "asc"}
          \/ c.args.scope \notin {None, Some(""), Some("gallery"), Some("album")}
    \/ /\ c.accessor = "get_users"
       /\ \/ c.args.sort \notin {"name", "activity"}
          \/ c.args.scope \notin {None, Some(""), Some("gallery"), Some("album")}

\* C4: a call of get_gallery, get_contents or get_users with an enum-constrained
\* argument outside its documented set (an absent or empty scope is inside) raises
\* ValueError, issues no HTTP request and leaves the format registry as it was.
C4_EnumsRefused ==
    [][OutOfSet(call')
          => /\ call'.stage = "ConfigError"
             /\ call'.error = "ValueError"
             /\ call'.gets = 0
             /\ call'.trace = <<>>
             /\ classFormats' = classFormats
             /\ instFormats' = instFormats
      ]_vars

\* get_contents refused for its scope alone, by a client whose registry is not empty
C4_Witness ==
    /\ call.accessor = "get_contents"
    /\ call.stage = "ConfigError"
    /\ call.args.sort_on = "random"
    /\ call.args.sort_direction = "asc"
    /\ call.args.scope = Some("bogus")
    /\ Formats(call.inst).sizes # <<>>
    /\ call.gets = 0

TagKeys == {<<"tags">>, <<"tags_exclusive">>}

ScopeKeysOf(c) ==
    IF c.accessor = "get_contents" THEN {<<"scope">>, <<"scope_id">>}
    ELSE {<<"user_scope_model">>, <<"user_scope_id">>, <<"user_scope_all">>}

ScopeGiven(c) == c.args.scope \notin {None, Some("")}
ScopeIdGiven(c) == c.args.scope_id # None

\* the enum-constrained arguments other than scope are inside their sets
OthersInSet(c) ==
    IF c.accessor = "get_contents"
    THEN /\ c.args.sort_on \in {"created_on", "captured_on", "modified_on",
                                "filename", "random"}
         /\ c.args.sort_direction \in {"desc", "asc"}
    ELSE c.args.sort \in {"name", "activity"}

\* C8, as claimed: in get_contents and get_users the scope options are in the
\* request if and only if both scope and scope_id are given; giving one of the two
\* alone, whatever its value, raises nothing and gives a request without them.
C8_ScopeNeedsBoth ==
    call.accessor \in {"get_contents", "get_users"}
       => /\ call.trace # <<>>
                => IF ScopeGiven(call) /\ ScopeIdGiven(call)
                   THEN ScopeKeysOf(call) \subseteq DOMAIN call.options
                   ELSE ScopeKeysOf(call) \cap DOMAIN call.options = {}
          /\ (OthersInSet(call) /\ (ScopeGiven(call) # ScopeIdGiven(call)))
                => /\ call.stage # "ConfigError"
                   /\ ScopeKeysOf(call) \cap DOMAIN call.options = {}

\* C8, amended: the scope options are in the request if and only if scope is
\* 'gallery' or 'album' and scope_id is given and not 0; giving one of the two
\* alone, scope being 'gallery' or 'album' when it is the one given, raises nothing
\* and gives a request without them.
C8_ScopeNeedsBothTruthy ==
    call.accessor \in {"get_contents", "get_users"}
       => /\ call.trace # <<>>
                => IF /\ call.args.scope \in {Some("gallery"), Some("album")}
                      /\ call.args.scope_id \notin {None, Some(0)}
                   THEN ScopeKeysOf(call) \subseteq DOMAIN call.options
                   ELSE ScopeKeysOf(call) \cap DOMAIN call.options = {}
          /\ (/\ OthersInSet(call)
              /\ ScopeGiven(call) # ScopeIdGiven(call)
              /\ call.args.scope \in {None, Some(""), Some("gallery"), Some("album")})
                => /\ call.stage # "ConfigError"
                   /\ call.trace # <<>>
                   /\ ScopeKeysOf(call) \cap DOMAIN call.options = {}

\* get_contents(scope='album') on its way, without scope options
C8_Witness ==
    /\ call.accessor = "get_contents"
    /\ call.stage = "Sent"
    /\ call.args.scope = Some("album")
    /\ call.args.scope_id = None
    /\ {<<"scope">>, <<"scope_id">>} \cap DOMAIN call.options = {}

\* ------------------------------------------------------------------ the response

Passed(st) == \E n \in 1..Len(call.trace) : call.trace[n] = st

\* the body parsed, and its stat is the string ok
StatIsOk(v) == HasKey(v, W_stat) /\ IsStr(GetItem(v, W_stat), W_ok)

\* C5: for a body that parses as JSON, _get returns the data payload if and only
\* if stat is exactly "ok", and raises DirectorError with the envelope's error
\* message otherwise; a parsed body has no other outcome.
C5_EnvelopeOutcome ==
    (Passed("Decoded") /\ call.stage \in Finished)
       => IF StatIsOk(call.decoded)
          THEN /\ call.stage = "Success"
               /\ HasKey(call.decoded, W_data)
               /\ call.data = GetItem(call.decoded, W_data)
          ELSE /\ call.stage = "ServiceError"
               /\ call.error = "DirectorError"
               /\ HasKey(call.decoded, W_error)
               /\ call.message = GetItem(call.decoded, W_error)

IsPrefix(p, q) == Len(p) <= Len(q) /\ SubSeq(q, 1, Len(p)) = p

StagePaths ==
    { <<"Built", "Sent", "ConnectionFailed">>,
      <<"Built", "Sent", "NonOkStatus">>,
      <<"Built", "Sent", "BodyReceived", "ParseFailed">> }
    \cup { <<"Built", "Sent", "BodyReceived", "Decoded", last>> :
              last \in {"ServiceError", "Success", "Uncaught"} }

StagesInOrder ==
    /\ \E q \in StagePaths : IsPrefix(call.trace, q)
    /\ call.trace # <<>> => call.stage = call.trace[Len(call.trace)]
    /\ call.gets = IF Passed("Sent") THEN 1 ELSE 0
    /\ call.subs = IF Passed("ParseFailed") \/ Passed("Decoded") THEN 1 ELSE 0
    /\ call.loads = call.subs
    /\ Passed("BodyReceived") <=> call.status = HttpOk
    /\ call.stage \in {"ConnectionFailed", "NonOkStatus"}
          => /\ call.error = "DirectorConnectionError"
             /\ call.subs = 0 /\ call.loads = 0
             /\ call.text = <<>> /\ call.decoded = JNone
    /\ Passed("Decoded") => Loads(call.text).ok
    /\ call.stage \in {"ServiceError", "Success", "Uncaught"} => Passed("Decoded")

\* C9: a request is Built, then Sent, then one of ConnectionFailed, NonOkStatus
\* and BodyReceived; the body is parsed only once received and the envelope looked
\* at only once parsed; a connection failure and a status other than 200 end the
\* call with DirectorConnectionError, the body neither sanitized nor parsed; the
\* call ends in one final stage, after at most one HTTP GET, and never goes back.
C9_Stages ==
    /\ []StagesInOrder
    /\ (call.stage = "Built") ~> (call.stage \in Finished)

\* a call ended by a status other than 200, after one GET and without any parsing
C9_Witness ==
    /\ call.stage = "NonOkStatus"
    /\ call.trace = <<"Built", "Sent", "NonOkStatus">>
    /\ call.status = 404
    /\ call.gets = 1
    /\ call.loads = 0

\* the places of the characters of body that stay
Kept(body) ==
    {i \in 1..Len(body) :
        body[i] # BS \/ (i < Len(body) /\ body[i + 1] \in {"/", "u", QT})}

\* the n-th place of the set S of places
Nth(S, n) == CHOOSE i \in S : Cardinality({k \in S : k <= i}) = n

Stripped(body) == [n \in 1..Cardinality(Kept(body)) |-> body[Nth(Kept(body), n)]]

\* C10: every received body is sanitized before it is parsed; the text parsed is
\* the body without the backslashes that are not right before '/', 'u' or '"',
\* every other character kept in order; a body with no such backslash is parsed
\* as it is; and sanitizing the text again changes nothing.
C10_Sanitized ==
    /\ call.loads > 0 => call.subs > 0
    /\ (Passed("BodyReceived") /\ call.stage # "BodyReceived") => call.subs = 1
    /\ call.subs > 0
          => /\ call.text = Stripped(call.body)
             /\ Kept(call.body) = 1..Len(call.body) => call.text = call.body
             /\ Sanitize(call.text) = call.text
             /\ Passed("Decoded") <=> Loads(Stripped(call.body)).ok

\* a body parsed after one backslash was taken out of it and another left in
C10_Witness ==
    /\ call.stage = "Success"
    /\ Len(call.text) < Len(call.body)
    /\ \E n \in 1..Len(call.text) : call.text[n] = BS
    /\ ~Loads(call.body).ok

\* ------------------------------------------------------------------ the request address

\* the address the specification gives requests of a client made with this key
\* and this host, up to the endpoint's name
BasePath(api_key, api_path) ==
    "http://" \o Join(NormPath(api_path), "")
        \o (IF KeyParts(api_key)[1] = <<"local">> THEN "/index.php?api/" ELSE "/api/")

\* C11: a client made with host H and a hosted key sends every request for
\* endpoint E to http://H/api/E, with the options as the query, and one made
\* with a local key sends it to http://H/index.php?api/E; the address up to E is
\* set when the client is made, and no accessor or format operation changes it.
C11_RequestAddress ==
    [][/\ \A i \in Insts :
             /\ directors[i].made => directors'[i] = directors[i]
             /\ (~directors[i].made /\ directors'[i].made)
                   => Join(directors'[i].api_path, "")
                          = BasePath(call'.args.api_key, call'.args.api_path)
       /\ (call.stage = "Built" /\ call'.stage = "Sent")
             => /\ Url(call').address
                       = Join(directors[call.inst].api_path, "")
                             \o call.endpoint[Len(call.endpoint)]
                /\ Url(call').query = call.options]_vars

====
